---- MODULE Spec2Model ----
(***************************************************************************)
(* Zermatt ski planner: the segment catalog, the route validator            *)
(* (validateConnection), the interactive route list and the A* search       *)
(* (findRoute) of lib/routeCalculations.ts.                                 *)
(*                                                                         *)
(* Geometry.  Every coordinate of the model lies on one meridian, so a      *)
(* coordinate is its distance in metres from a reference point and the      *)
(* haversine formula reduces to the absolute difference.                    *)
(*                                                                         *)
(* Time.  Costs are kept as integers in units of 1/70000 minute: a slope    *)
(* of L metres at v km/h costs L/1000/v*60 minutes = L * (4200/v) units,    *)
(* and 4200 is the least common multiple of the four speeds.                *)
(*                                                                         *)
(* Ids.  A segment id is a string; startsWith('lift-') and                  *)
(* startsWith('piste-') are decided over the finite universe of ids used.   *)
(***************************************************************************)
EXTENDS Integers, Sequences, FiniteSets, TLC

VARIABLES
  catalog,        \* [lifts, slopes]: the two feature collections (lifts.json, slopes.json)
  route,          \* page.tsx: the in-progress route (useState<RouteSegment[]>)
  validateRoutes, \* page.tsx: the 'Validate Route Connections' setting
  toast,          \* page.tsx: the toast, <<>> = null, else <<[message, type]>>
  stats,          \* RouteBuilder.tsx: calculateRouteStats(route) as last rendered
  validNext,      \* SkiMap.tsx: getValidNextSegments(selectedRoute) as last rendered
  vcall,          \* history: the validateConnection call of the last handler,
                  \* <<[route, seg, result]>>, <<>> when it made none
  pc,             \* findRoute: "idle" | "search" | "done"
  startPoint,     \* findRoute argument
  endPoint,       \* findRoute argument
  maxDifficulty,  \* findRoute argument ("none" = null)
  openSet,        \* findRoute: the open list, items [f, g, id, path]
  visited,        \* findRoute: the visited set
  iterations,     \* findRoute: the loop counter
  popped,         \* history: ids whose neighbours were pushed, in order of expansion
  result          \* findRoute: the returned PathfindingResult, <<>> before the return

vars == <<catalog, route, validateRoutes, toast, stats, validNext, vcall, pc,
          startPoint, endPoint, maxDifficulty, openSet, visited, iterations,
          popped, result>>

rendered == <<stats, validNext>>

uiVars == <<validateRoutes, toast>>

searchVars == <<pc, startPoint, endPoint, maxDifficulty, openSet, visited,
                iterations, popped, result>>

----------------------------------------------------------------------------
(* Program constants *)

CONNECTION_THRESHOLD == 50

\* one minute, in cost units
Minute == 70000

AVERAGE_SPEEDS == [green |-> 25, blue |-> 30, red |-> 35, black |-> 40]

DIFFICULTY_ORDER == [green |-> 0, blue |-> 1, red |-> 2, black |-> 3]

\* Stands for the source's maxIterations = 50000, scaled down so that the
\* catalogs of the model (a few segments) reach the cap.
maxIterations == 5

\* Longest route the route-building specifications build.
MaxRouteLen == 3

NoCoord == -1

----------------------------------------------------------------------------
(* Ids and prefixes *)

LiftPrefixed == {"lift-A", "lift-D", "lift-X"}
PistePrefixed == {"piste-B", "piste-C", "piste-E", "piste-X"}

startsWithLift(id) == id \in LiftPrefixed
startsWithPiste(id) == id \in PistePrefixed

----------------------------------------------------------------------------
(* The catalog: features *)

Lift(id, name, coords, duration, rise, conn) ==
  [id |-> id, name |-> name, coordinates |-> coords, duration |-> duration,
   verticalRise |-> rise, connectsTo |-> conn]

Slope(id, name, coords, difficulty, length, drop, conn, bidi) ==
  [id |-> id, name |-> name, coordinates |-> coords, difficulty |-> difficulty,
   length |-> length, verticalDrop |-> drop, connectsTo |-> conn,
   bidirectional |-> bidi]

\* lift A rides from the valley (0) to the summit (3000)
LiftsA ==
  { Lift("lift-A", "A", <<0, 3000>>, d, 3000, c) :
      d \in {0, 4},
      c \in {<<>>, <<"piste-B">>, <<"piste-C">>, <<"piste-B", "piste-C">>} }

\* slope B: blue, 1000 m, leaves the summit 50 m or 120 m from A's exit
SlopesB ==
  { Slope("piste-B", "B", g, "blue", 1000, 3000, c, FALSE) :
      g \in {<<3050, 1500, 0>>, <<3120, 1500, 50>>},
      c \in {<<>>, <<"lift-A">>, <<"piste-C", "lift-A">>} }

\* slope C: leaves A's exit and ends 50 m or 120 m from A's entry
SlopesC ==
  { Slope("piste-C", "C", <<3000, a[3]>>, a[1], 3000, 2950, c, a[2]) :
      a \in {<<"green", FALSE, 50>>, <<"red", FALSE, 120>>, <<"black", TRUE, 50>>},
      c \in {<<>>, <<"lift-A">>, <<"piste-B">>} }

GeneratedCatalogs ==
  { [lifts |-> <<a>>, slopes |-> <<b, c>>] :
      a \in LiftsA, b \in SlopesB, c \in SlopesC }

\* A denser network: a second lift D beside A, the run from the summit to the
\* valley as two black halves (B then C) and as one red slope E.
LiftsWebA ==
  { Lift("lift-A", "A", <<0, 3000>>, 4, 3000, c) :
      c \in {<<"piste-B">>, <<"piste-B", "piste-C", "lift-D">>} }

SlopesWebB ==
  { Slope("piste-B", "B", <<3000, 1500>>, "black", 1500, 1500, c, FALSE) :
      c \in {<<"piste-C">>, <<"piste-C", "lift-D">>, <<"piste-C", "piste-B">>} }

SlopesWebC ==
  { Slope("piste-C", "C", <<1500, 0>>, "black", 1500, 1500, c, FALSE) :
      c \in {<<"lift-D">>, <<"lift-D", "lift-A">>, <<"lift-A", "piste-X">>} }

LiftsWebD ==
  { Lift("lift-D", "D", <<50, 3050>>, 6, 3000, c) :
      c \in {<<>>, <<"piste-B", "piste-C">>} }

\* E runs beside B and C, or lies in a sector nothing connects to
SlopesWebE ==
  { Slope("piste-E", "E", <<3000, 2000, 0>>, "red", 3000, 3000, <<"lift-A">>, FALSE),
    Slope("piste-E", "E", <<3000, 2000, 0>>, "green", 3000, 3000, <<"lift-A">>, FALSE),
    Slope("piste-E", "E", <<6000, 5000>>, "red", 1000, 1000, <<>>, FALSE) }

WebCatalogs ==
  { [lifts |-> <<a, d>>, slopes |-> <<b, c, e>>] :
      a \in LiftsWebA, d \in LiftsWebD, b \in SlopesWebB, c \in SlopesWebC,
      e \in SlopesWebE }

Catalogs == GeneratedCatalogs \cup WebCatalogs

----------------------------------------------------------------------------
(* Geometry and lookups *)

haversineDistance(coord1, coord2) ==
  IF coord1 >= coord2 THEN coord1 - coord2 ELSE coord2 - coord1

\* mutant: a miss falls back to the first feature
findOrFirst(features, id) ==
  LET hits == {i \in DOMAIN features : features[i].id = id}
  IN IF hits = {} THEN <<features[1]>>
     ELSE <<features[CHOOSE i \in hits : \A j \in hits : i <= j]>>

find(features, id) ==
  LET hits == {i \in DOMAIN features : features[i].id = id}
  IN IF hits = {} THEN <<>>
     ELSE <<features[CHOOSE i \in hits : \A j \in hits : i <= j]>>

getLiftById(id) == find(catalog.lifts, id)

getSlopeById(id) == find(catalog.slopes, id)

includes(seq, x) == \E i \in DOMAIN seq : seq[i] = x

getSegmentEndCoords(segment) ==
  IF segment.type = "lift"
  THEN LET lift == getLiftById(segment.id)
       IN IF lift = <<>> THEN NoCoord
          ELSE lift[1].coordinates[Len(lift[1].coordinates)]
  ELSE LET slope == getSlopeById(segment.id)
       IN IF slope = <<>> THEN NoCoord
          ELSE slope[1].coordinates[Len(slope[1].coordinates)]

getSegmentStartCoords(segment) ==
  IF segment.type = "lift"
  THEN LET lift == getLiftById(segment.id)
       IN IF lift = <<>> THEN NoCoord ELSE lift[1].coordinates[1]
  ELSE LET slope == getSlopeById(segment.id)
       IN IF slope = <<>> THEN NoCoord ELSE slope[1].coordinates[1]

getSegmentConnections(segment) ==
  IF segment.type = "slope"
  THEN LET slope == getSlopeById(segment.id)
       IN IF slope = <<>> THEN <<>> ELSE slope[1].connectsTo
  ELSE LET lift == getLiftById(segment.id)
       IN IF lift = <<>> THEN <<>> ELSE lift[1].connectsTo

----------------------------------------------------------------------------
(* RouteValidator *)

NotAdjacent == "These segments are not adjacent."
WrongDirection == "goes the wrong direction from here (would need to ski uphill)."

\* mutant: the geometric fallback compares with < instead of <=
validateConnectionStrict(currentRoute, newSegment) ==
  IF Len(currentRoute) = 0 THEN [isValid |-> TRUE, message |-> <<>>]
  ELSE
    LET lastSegment == currentRoute[Len(currentRoute)]
        lastEnd == getSegmentEndCoords(lastSegment)
        newStart == getSegmentStartCoords(newSegment)
    IN IF includes(getSegmentConnections(lastSegment), newSegment.id)
          \/ (lastEnd # NoCoord /\ newStart # NoCoord
              /\ haversineDistance(lastEnd, newStart) < CONNECTION_THRESHOLD)
       THEN [isValid |-> TRUE, message |-> <<>>]
       ELSE [isValid |-> FALSE,
             message |-> <<newSegment.name, lastSegment.name, NotAdjacent>>]

\* mutant: the first segment of the route is taken instead of the last
validateConnectionFirst(currentRoute, newSegment) ==
  IF Len(currentRoute) = 0 THEN [isValid |-> TRUE, message |-> <<>>]
  ELSE
    LET lastSegment == currentRoute[1]
        lastEnd == getSegmentEndCoords(lastSegment)
        newStart == getSegmentStartCoords(newSegment)
    IN IF includes(getSegmentConnections(lastSegment), newSegment.id)
          \/ (lastEnd # NoCoord /\ newStart # NoCoord
              /\ haversineDistance(lastEnd, newStart) <= CONNECTION_THRESHOLD)
       THEN [isValid |-> TRUE, message |-> <<>>]
       ELSE [isValid |-> FALSE,
             message |-> <<newSegment.name, lastSegment.name, NotAdjacent>>]

\* mutant: the empty route is validated like any other
validateConnectionNoEmpty(currentRoute, newSegment) ==
  IF Len(currentRoute) = 0
  THEN [isValid |-> getSegmentStartCoords(newSegment) # NoCoord, message |-> <<>>]
  ELSE
    LET lastSegment == currentRoute[Len(currentRoute)]
        lastEnd == getSegmentEndCoords(lastSegment)
        newStart == getSegmentStartCoords(newSegment)
    IN IF includes(getSegmentConnections(lastSegment), newSegment.id)
          \/ (lastEnd # NoCoord /\ newStart # NoCoord
              /\ haversineDistance(lastEnd, newStart) <= CONNECTION_THRESHOLD)
       THEN [isValid |-> TRUE, message |-> <<>>]
       ELSE [isValid |-> FALSE,
             message |-> <<newSegment.name, lastSegment.name, NotAdjacent>>]

\* mutant: the message names the candidate only
validateConnectionNoLast(currentRoute, newSegment) ==
  IF Len(currentRoute) = 0 THEN [isValid |-> TRUE, message |-> <<>>]
  ELSE
    LET lastSegment == currentRoute[Len(currentRoute)]
        lastEnd == getSegmentEndCoords(lastSegment)
        newStart == getSegmentStartCoords(newSegment)
    IN IF includes(getSegmentConnections(lastSegment), newSegment.id)
          \/ (lastEnd # NoCoord /\ newStart # NoCoord
              /\ haversineDistance(lastEnd, newStart) <= CONNECTION_THRESHOLD)
       THEN [isValid |-> TRUE, message |-> <<>>]
       ELSE [isValid |-> FALSE, message |-> <<newSegment.name, NotAdjacent>>]

\* mutant: the wrong-direction test is made for lifts as well
validateConnectionHintLifts(currentRoute, newSegment) ==
  IF Len(currentRoute) = 0 THEN [isValid |-> TRUE, message |-> <<>>]
  ELSE
    LET lastSegment == currentRoute[Len(currentRoute)]
        lastEnd == getSegmentEndCoords(lastSegment)
        newStart == getSegmentStartCoords(newSegment)
        newEnd == getSegmentEndCoords(newSegment)
    IN IF includes(getSegmentConnections(lastSegment), newSegment.id)
          \/ (lastEnd # NoCoord /\ newStart # NoCoord
              /\ haversineDistance(lastEnd, newStart) <= CONNECTION_THRESHOLD)
       THEN [isValid |-> TRUE, message |-> <<>>]
       ELSE [isValid |-> FALSE,
             message |-> <<newSegment.name, lastSegment.name>> \o
               (IF lastEnd # NoCoord /\ newEnd # NoCoord
                   /\ haversineDistance(lastEnd, newEnd) <= CONNECTION_THRESHOLD
                THEN <<newSegment.name, WrongDirection>>
                ELSE <<NotAdjacent>>)]

\* The message `"${newName}" doesn't connect to "${lastName}". ${reason}` is
\* kept as the sequence of what fills its holes: <<newName, lastName>> and
\* the parts of the reason, which for the wrong direction names the candidate
\* again.
validateConnection(currentRoute, newSegment) ==
  IF Len(currentRoute) = 0 THEN [isValid |-> TRUE, message |-> <<>>]
  ELSE
    LET lastSegment == currentRoute[Len(currentRoute)]
        connections == getSegmentConnections(lastSegment)
        lastEnd == getSegmentEndCoords(lastSegment)
        newStart == getSegmentStartCoords(newSegment)
        newEnd == getSegmentEndCoords(newSegment)
        reason ==
          IF newSegment.type = "slope" /\ lastEnd # NoCoord /\ newEnd # NoCoord
             /\ haversineDistance(lastEnd, newEnd) <= CONNECTION_THRESHOLD
          THEN <<newSegment.name, WrongDirection>>
          ELSE <<NotAdjacent>>
    IN IF includes(connections, newSegment.id)
       THEN [isValid |-> TRUE, message |-> <<>>]
       ELSE IF lastEnd # NoCoord /\ newStart # NoCoord
               /\ haversineDistance(lastEnd, newStart) <= CONNECTION_THRESHOLD
       THEN [isValid |-> TRUE, message |-> <<>>]
       ELSE [isValid |-> FALSE,
             message |-> <<newSegment.name, lastSegment.name>> \o reason]

----------------------------------------------------------------------------
(* Time of a slope *)

speedOf(difficulty) ==
  IF difficulty \in DOMAIN AVERAGE_SPEEDS THEN AVERAGE_SPEEDS[difficulty] ELSE 30

\* (length / 1000 / speedKmh) * 60 minutes, in cost units
slopeTime(length, speedKmh) == length * ((Minute * 60) \div (1000 * speedKmh))

----------------------------------------------------------------------------
(* RouteStatsCalculator *)

RouteStats(up, down, time, liftCount, slopeCount, breakdown) ==
  [totalVerticalUp |-> up, totalVerticalDown |-> down, estimatedTime |-> time,
   liftCount |-> liftCount, slopeCount |-> slopeCount,
   difficultyBreakdown |-> breakdown]

\* Math.round of a time kept in cost units, in minutes
round(time) == (2 * time + Minute) \div (2 * Minute)

\* mutant: the count is raised on a copy and lost
incrementLost(breakdown, difficulty) == breakdown

\* difficultyBreakdown[difficulty]++ on the record of the four counts
increment(breakdown, difficulty) ==
  IF difficulty \in DOMAIN breakdown
  THEN [breakdown EXCEPT ![difficulty] = @ + 1]
  ELSE breakdown

\* the loop of calculateRouteStats: the accumulators after the segments of
\* `segments`, estimatedTime still unrounded
RECURSIVE accumulate(_)
accumulate(segments) ==
  IF segments = <<>>
  THEN RouteStats(0, 0, 0, 0, 0, [green |-> 0, blue |-> 0, red |-> 0, black |-> 0])
  ELSE
    LET acc == accumulate(SubSeq(segments, 1, Len(segments) - 1))
        segment == segments[Len(segments)]
    IN IF segment.type = "lift"
       THEN LET lift == find(catalog.lifts, segment.id)
            IN IF lift = <<>> THEN acc
               ELSE [acc EXCEPT
                       !.totalVerticalUp = @ + lift[1].verticalRise,
                       !.estimatedTime = @ + lift[1].duration * Minute,
                       !.liftCount = @ + 1]
       ELSE LET slope == find(catalog.slopes, segment.id)
            IN IF slope = <<>> THEN acc
               ELSE [acc EXCEPT
                       !.totalVerticalDown = @ + slope[1].verticalDrop,
                       !.estimatedTime =
                          @ + slopeTime(slope[1].length, speedOf(slope[1].difficulty)),
                       !.slopeCount = @ + 1,
                       !.difficultyBreakdown = increment(@, slope[1].difficulty)]

calculateRouteStats(segments) ==
  LET acc == accumulate(segments)
  IN [acc EXCEPT !.estimatedTime = round(@)]

----------------------------------------------------------------------------
(* Reachability shown on the map *)

\* connections.filter(id => id.startsWith(...)), in order
RECURSIVE filterLift(_)
filterLift(ids) ==
  IF ids = <<>> THEN <<>>
  ELSE (IF startsWithLift(Head(ids)) THEN <<Head(ids)>> ELSE <<>>)
       \o filterLift(Tail(ids))

RECURSIVE filterPiste(_)
filterPiste(ids) ==
  IF ids = <<>> THEN <<>>
  ELSE (IF startsWithPiste(Head(ids)) THEN <<Head(ids)>> ELSE <<>>)
       \o filterPiste(Tail(ids))

getValidNextSegments(currentRoute) ==
  IF Len(currentRoute) = 0
  THEN [lifts |-> [i \in DOMAIN catalog.lifts |-> catalog.lifts[i].id],
        slopes |-> [i \in DOMAIN catalog.slopes |-> catalog.slopes[i].id]]
  ELSE LET connections == getSegmentConnections(currentRoute[Len(currentRoute)])
       IN [lifts |-> filterLift(connections), slopes |-> filterPiste(connections)]

\* the render after a handler has set the route: RouteBuilder computes the
\* stats and SkiMap the reachable segments
Render(segments) ==
  /\ stats' = calculateRouteStats(segments)
  /\ validNext' = getValidNextSegments(segments)

----------------------------------------------------------------------------
(* Route segments the callers hand to the validator *)

RouteSegment(type, id, name) == [type |-> type, id |-> id, name |-> name]

\* what a click on the map produces: one RouteSegment per catalog feature
CatalogSegments ==
  { RouteSegment("lift", catalog.lifts[i].id, catalog.lifts[i].name) :
      i \in DOMAIN catalog.lifts }
  \cup
  { RouteSegment("slope", catalog.slopes[i].id, catalog.slopes[i].name) :
      i \in DOMAIN catalog.slopes }

\* segments of a route stored under an older catalog: ids no longer known
UnknownSegments ==
  { RouteSegment("lift", "lift-X", "X"), RouteSegment("slope", "piste-X", "PX") }

AnySegments == CatalogSegments \cup UnknownSegments

RECURSIVE RoutesUpTo(_)
RoutesUpTo(n) ==
  IF n = 0 THEN {<<>>}
  ELSE LET shorter == RoutesUpTo(n - 1)
       IN shorter \cup { Append(r, s) : r \in {x \in shorter : Len(x) = n - 1},
                                         s \in AnySegments }

----------------------------------------------------------------------------
(* PathFinder: helpers *)

\* the RoutePoints a caller can pass: either end of a catalog segment, or a
\* point on a segment the catalog does not hold
RoutePoint(type, id, position) == [type |-> type, id |-> id, position |-> position]

\* SkiMap also offers the stations as start and end points
RoutePoints ==
  { RoutePoint(s.type, s.id, p) : s \in CatalogSegments, p \in {"start", "end"} }
  \cup { RoutePoint("lift", "lift-X", "end"),
         RoutePoint("station", "station-0", "start") }

Difficulties == {"none", "green", "red"}

\* mutant: a point that is not found resolves to the origin
getPointLocationOrigin(point) ==
  IF point.type = "lift"
  THEN LET lift == getLiftById(point.id)
       IN IF lift = <<>> THEN 0
          ELSE IF point.position = "start" THEN lift[1].coordinates[1]
          ELSE lift[1].coordinates[Len(lift[1].coordinates)]
  ELSE LET slope == getSlopeById(point.id)
       IN IF slope = <<>> THEN 0
          ELSE IF point.position = "start" THEN slope[1].coordinates[1]
          ELSE slope[1].coordinates[Len(slope[1].coordinates)]

getPointLocation(point) ==
  IF point.type = "lift"
  THEN LET lift == getLiftById(point.id)
       IN IF lift = <<>> THEN NoCoord
          ELSE IF point.position = "start" THEN lift[1].coordinates[1]
          ELSE lift[1].coordinates[Len(lift[1].coordinates)]
  ELSE LET slope == getSlopeById(point.id)
       IN IF slope = <<>> THEN NoCoord
          ELSE IF point.position = "start" THEN slope[1].coordinates[1]
          ELSE slope[1].coordinates[Len(slope[1].coordinates)]

getSegmentTimeCost(id) ==
  IF startsWithLift(id)
  THEN LET lift == getLiftById(id)
       IN IF lift = <<>> \/ lift[1].duration = 0 THEN 5 * Minute
          ELSE lift[1].duration * Minute
  ELSE LET slope == getSlopeById(id)
       IN IF slope = <<>> THEN 5 * Minute
          ELSE slopeTime(slope[1].length, speedOf(slope[1].difficulty))

\* "none" for a lift or an unknown slope
getSegmentDifficulty(id) ==
  IF startsWithLift(id) THEN "none"
  ELSE LET slope == getSlopeById(id)
       IN IF slope = <<>> THEN "none" ELSE slope[1].difficulty

\* mutant: the limit is compared the wrong way round
isWithinDifficultyLimitFlipped(id, maxDiff) ==
  IF maxDiff = "none" THEN TRUE
  ELSE LET segDiff == getSegmentDifficulty(id)
       IN IF segDiff = "none" THEN TRUE
          ELSE /\ segDiff \in DOMAIN DIFFICULTY_ORDER
               /\ DIFFICULTY_ORDER[segDiff] >= DIFFICULTY_ORDER[maxDiff]

isWithinDifficultyLimit(id, maxDiff) ==
  IF maxDiff = "none" THEN TRUE
  ELSE LET segDiff == getSegmentDifficulty(id)
       IN IF segDiff = "none" THEN TRUE
          ELSE /\ segDiff \in DOMAIN DIFFICULTY_ORDER
               /\ DIFFICULTY_ORDER[segDiff] <= DIFFICULTY_ORDER[maxDiff]

\* <<>> when the id is not in the catalog
getSegmentInfo(id) ==
  IF startsWithLift(id)
  THEN LET lift == getLiftById(id)
       IN IF lift = <<>> THEN <<>> ELSE <<[type |-> "lift", name |-> lift[1].name]>>
  ELSE LET slope == getSlopeById(id)
       IN IF slope = <<>> THEN <<>> ELSE <<[type |-> "slope", name |-> slope[1].name]>>

getSegmentEndById(id) ==
  IF startsWithLift(id)
  THEN LET lift == getLiftById(id)
       IN IF lift = <<>> THEN NoCoord
          ELSE lift[1].coordinates[Len(lift[1].coordinates)]
  ELSE LET slope == getSlopeById(id)
       IN IF slope = <<>> THEN NoCoord
          ELSE slope[1].coordinates[Len(slope[1].coordinates)]

\* mutant: the search takes its neighbours from nowhere
getConnectionsByIdNone(id) == <<>>

getConnectionsById(id) ==
  IF startsWithLift(id)
  THEN LET lift == getLiftById(id)
       IN IF lift = <<>> THEN <<>> ELSE lift[1].connectsTo
  ELSE LET slope == getSlopeById(id)
       IN IF slope = <<>> THEN <<>> ELSE slope[1].connectsTo

near(location, coord) == haversineDistance(location, coord) <= CONNECTION_THRESHOLD

\* [...new Set(results)]: first occurrences, in order
RECURSIVE unique(_)
unique(seq) ==
  IF seq = <<>> THEN <<>>
  ELSE LET init == unique(SubSeq(seq, 1, Len(seq) - 1))
           last == seq[Len(seq)]
       IN IF includes(init, last) THEN init ELSE Append(init, last)

RECURSIVE liftsNear(_, _, _)
liftsNear(location, i, atEnd) ==
  IF i > Len(catalog.lifts) THEN <<>>
  ELSE LET lift == catalog.lifts[i]
           coord == IF atEnd THEN lift.coordinates[Len(lift.coordinates)]
                    ELSE lift.coordinates[1]
       IN (IF near(location, coord) THEN <<lift.id>> ELSE <<>>)
          \o liftsNear(location, i + 1, atEnd)

RECURSIVE slopesNear(_, _, _)
slopesNear(location, i, atEnd) ==
  IF i > Len(catalog.slopes) THEN <<>>
  ELSE LET slope == catalog.slopes[i]
           start == slope.coordinates[1]
           end == slope.coordinates[Len(slope.coordinates)]
           own == IF atEnd THEN end ELSE start
           other == IF atEnd THEN start ELSE end
       IN (IF near(location, own) THEN <<slope.id>> ELSE <<>>)
          \o (IF slope.bidirectional /\ near(location, other)
              THEN <<slope.id>> ELSE <<>>)
          \o slopesNear(location, i + 1, atEnd)

\* mutant: the segments are looked up by their exits
findSegmentsStartingNearByExit(location) ==
  unique(liftsNear(location, 1, TRUE) \o slopesNear(location, 1, TRUE))

\* mutant: the results are not passed through a Set
findSegmentsStartingNearTwice(location) ==
  liftsNear(location, 1, FALSE) \o slopesNear(location, 1, FALSE)

findSegmentsStartingNear(location) ==
  unique(liftsNear(location, 1, FALSE) \o slopesNear(location, 1, FALSE))

findSegmentsEndingNear(location) ==
  unique(liftsNear(location, 1, TRUE) \o slopesNear(location, 1, TRUE))

\* (dist / 1000 / 30) * 60 minutes, in cost units; 0 for an unknown id
heuristic(segmentId, endLocation) ==
  LET segEnd == getSegmentEndById(segmentId)
  IN IF segEnd = NoCoord THEN 0
     ELSE haversineDistance(segEnd, endLocation) * ((Minute * 60) \div (1000 * 30))

QueueItem(f, g, id, path) == [f |-> f, g |-> g, id |-> id, path |-> path]

\* mutant: the comparator is reversed (b[0] - a[0]): descending f
RECURSIVE sortByFDescending(_)
sortByFDescending(items) ==
  IF items = <<>> THEN <<>>
  ELSE LET init == sortByFDescending(SubSeq(items, 1, Len(items) - 1))
           x == items[Len(items)]
           k == Cardinality({i \in DOMAIN init : init[i].f >= x.f})
       IN SubSeq(init, 1, k) \o <<x>> \o SubSeq(init, k + 1, Len(init))

\* Array.prototype.sort((a, b) => a[0] - b[0]): stable, ascending f
RECURSIVE sortByF(_)
sortByF(items) ==
  IF items = <<>> THEN <<>>
  ELSE LET init == sortByF(SubSeq(items, 1, Len(items) - 1))
           x == items[Len(items)]
           k == Cardinality({i \in DOMAIN init : init[i].f <= x.f})
       IN SubSeq(init, 1, k) \o <<x>> \o SubSeq(init, k + 1, Len(init))

RECURSIVE seedItems(_, _, _)
seedItems(segIds, maxDiff, endLocation) ==
  IF segIds = <<>> THEN <<>>
  ELSE LET segId == Head(segIds)
           cost == getSegmentTimeCost(segId)
           rest == seedItems(Tail(segIds), maxDiff, endLocation)
       IN IF ~isWithinDifficultyLimit(segId, maxDiff) THEN rest
          ELSE <<QueueItem(cost + heuristic(segId, endLocation), cost, segId, <<segId>>)>>
               \o rest

\* mutant: a neighbour is pushed whether or not it is visited
RECURSIVE neighbourItemsVisitedToo(_, _, _, _, _, _)
neighbourItemsVisitedToo(connections, seen, maxDiff, gScore, path, endLocation) ==
  IF connections = <<>> THEN <<>>
  ELSE LET nextId == Head(connections)
           nextCost == gScore + getSegmentTimeCost(nextId)
           rest == neighbourItemsVisitedToo(Tail(connections), seen, maxDiff,
                                            gScore, path, endLocation)
       IN IF ~isWithinDifficultyLimit(nextId, maxDiff) THEN rest
          ELSE <<QueueItem(nextCost + heuristic(nextId, endLocation), nextCost,
                           nextId, Append(path, nextId))>> \o rest

RECURSIVE neighbourItems(_, _, _, _, _, _)
neighbourItems(connections, seen, maxDiff, gScore, path, endLocation) ==
  IF connections = <<>> THEN <<>>
  ELSE LET nextId == Head(connections)
           nextCost == gScore + getSegmentTimeCost(nextId)
           rest == neighbourItems(Tail(connections), seen, maxDiff, gScore, path,
                                  endLocation)
       IN IF nextId \in seen \/ ~isWithinDifficultyLimit(nextId, maxDiff) THEN rest
          ELSE <<QueueItem(nextCost + heuristic(nextId, endLocation), nextCost,
                           nextId, Append(path, nextId))>> \o rest

\* mutant: the test of info is inverted, so no known segment is pushed
buildRouteSkipsKnown(path) == <<>>

RECURSIVE buildRoute(_)
buildRoute(path) ==
  IF path = <<>> THEN <<>>
  ELSE LET info == getSegmentInfo(Head(path))
       IN (IF info = <<>> THEN <<>>
           ELSE <<RouteSegment(info[1].type, Head(path), info[1].name)>>)
          \o buildRoute(Tail(path))

InvalidPoint == "Invalid start or end point"
NoStart == "No segments found near start point"
NoEnd == "No segments found near end point"
Exceeded == "Search exceeded maximum iterations"
NoRoute == "No route found between these points"

Failure(message) == [success |-> FALSE, route |-> <<>>, message |-> message]

Success(r) == [success |-> TRUE, route |-> r, message |-> "none"]

seqToSet(seq) == {seq[i] : i \in DOMAIN seq}

----------------------------------------------------------------------------
(* Initial states *)

SearchIdle ==
  /\ pc = "idle"
  /\ startPoint = <<>>
  /\ endPoint = <<>>
  /\ maxDifficulty = "none"
  /\ openSet = <<>>
  /\ visited = {}
  /\ iterations = 0
  /\ popped = <<>>
  /\ result = <<>>

Init ==
  /\ catalog \in Catalogs
  /\ route = <<>>
  /\ validateRoutes = TRUE
  /\ toast = <<>>
  /\ stats = calculateRouteStats(<<>>)
  /\ validNext = getValidNextSegments(<<>>)
  /\ vcall = <<>>
  /\ SearchIdle

----------------------------------------------------------------------------
(* Specification SpecAppend: a route grown only by approved appends *)

ApprovedAppend(segment) ==
  /\ Len(route) < MaxRouteLen
  /\ LET validation == validateConnection(route, segment)
     IN /\ validation.isValid
        /\ vcall' = <<[route |-> route, seg |-> segment, result |-> validation]>>
        /\ route' = Append(route, segment)
        /\ Render(Append(route, segment))
  /\ UNCHANGED <<catalog, uiVars, searchVars>>

NextAppend == \E segment \in AnySegments : ApprovedAppend(segment)

SpecAppend == Init /\ [][NextAppend]_vars

----------------------------------------------------------------------------
(* Specification SpecValidator: validateConnection applied to any inputs *)

Validate(currentRoute, segment) ==
  /\ vcall' = <<[route |-> currentRoute, seg |-> segment,
                 result |-> validateConnection(currentRoute, segment)]>>
  /\ UNCHANGED <<catalog, route, uiVars, rendered, searchVars>>

\* one call a behaviour: the function is pure and the catalog fixed
NextValidator ==
  /\ vcall = <<>>
  /\ \E currentRoute \in RoutesUpTo(MaxRouteLen - 1), segment \in AnySegments :
       Validate(currentRoute, segment)

SpecValidator == Init /\ [][NextValidator]_vars

----------------------------------------------------------------------------
(* Specification SpecSearch: one findRoute call, one loop iteration a step *)

\* findRoute, up to the first test of the while loop
FindRoute(start, end, maxDiff) ==
  /\ pc = "idle"
  /\ startPoint' = <<start>>
  /\ endPoint' = <<end>>
  /\ maxDifficulty' = maxDiff
  /\ LET startLocation == getPointLocation(start)
         endLocation == getPointLocation(end)
     IN IF startLocation = NoCoord \/ endLocation = NoCoord
        THEN /\ result' = <<Failure(InvalidPoint)>>
             /\ pc' = "done"
             /\ openSet' = <<>>
        ELSE IF Len(findSegmentsStartingNear(startLocation)) = 0
        THEN /\ result' = <<Failure(NoStart)>>
             /\ pc' = "done"
             /\ openSet' = <<>>
        ELSE IF Cardinality(seqToSet(findSegmentsEndingNear(endLocation))) = 0
        THEN /\ result' = <<Failure(NoEnd)>>
             /\ pc' = "done"
             /\ openSet' = <<>>
        ELSE /\ openSet' = sortByF(seedItems(findSegmentsStartingNear(startLocation),
                                             maxDiff, endLocation))
             /\ pc' = "search"
             /\ result' = <<>>
  /\ visited' = {}
  /\ iterations' = 0
  /\ popped' = <<>>
  /\ UNCHANGED <<catalog, route, uiVars, rendered, vcall>>

EndLocation == getPointLocation(endPoint[1])

StartLocation == getPointLocation(startPoint[1])

goalSegments == seqToSet(findSegmentsEndingNear(EndLocation))

\* mutant: the loop is not bounded by the iteration count
loopConditionUnbounded == Len(openSet) > 0

loopCondition == Len(openSet) > 0 /\ iterations < maxIterations

\* mutant: the neighbours are taken off the catalog's own connectsTo array
\* (connections.shift()), which is left empty
SearchStepShiftsConnections ==
  /\ pc = "search"
  /\ loopCondition
  /\ iterations' = iterations + 1
  /\ LET current == Head(openSet)
         rest == Tail(openSet)
         emptied(features) ==
           [i \in DOMAIN features |->
              IF features[i].id = current.id
              THEN [features[i] EXCEPT !.connectsTo = <<>>]
              ELSE features[i]]
     IN IF current.id \in goalSegments
        THEN /\ result' = <<Success(buildRoute(current.path))>>
             /\ pc' = "done"
             /\ openSet' = rest
             /\ UNCHANGED <<visited, popped, catalog>>
        ELSE IF current.id \in visited
        THEN /\ openSet' = rest
             /\ UNCHANGED <<visited, popped, pc, result, catalog>>
        ELSE /\ visited' = visited \cup {current.id}
             /\ popped' = Append(popped, current.id)
             /\ openSet' = sortByF(rest \o
                  neighbourItems(getConnectionsById(current.id),
                                 visited \cup {current.id}, maxDifficulty,
                                 current.g, current.path, EndLocation))
             /\ catalog' = [lifts |-> emptied(catalog.lifts),
                            slopes |-> emptied(catalog.slopes)]
             /\ UNCHANGED <<pc, result>>
  /\ UNCHANGED <<route, uiVars, rendered, vcall, startPoint, endPoint, maxDifficulty>>

\* one iteration of the while loop
SearchStep ==
  /\ pc = "search"
  /\ loopCondition
  /\ iterations' = iterations + 1
  /\ LET current == Head(openSet)
         rest == Tail(openSet)
     IN IF current.id \in goalSegments
        THEN /\ result' = <<Success(buildRoute(current.path))>>
             /\ pc' = "done"
             /\ openSet' = rest
             /\ UNCHANGED <<visited, popped>>
        ELSE IF current.id \in visited
        THEN /\ openSet' = rest
             /\ UNCHANGED <<visited, popped, pc, result>>
        ELSE /\ visited' = visited \cup {current.id}
             /\ popped' = Append(popped, current.id)
             /\ openSet' = sortByF(rest \o
                  neighbourItems(getConnectionsById(current.id),
                                 visited \cup {current.id}, maxDifficulty,
                                 current.g, current.path, EndLocation))
             /\ UNCHANGED <<pc, result>>
  /\ UNCHANGED <<catalog, route, uiVars, rendered, vcall, startPoint, endPoint,
                 maxDifficulty>>

\* mutant: the budget test is strict
exitMessageStrict == IF iterations > maxIterations THEN Exceeded ELSE NoRoute

exitMessage == IF iterations >= maxIterations THEN Exceeded ELSE NoRoute

\* the statements after the while loop
SearchExit ==
  /\ pc = "search"
  /\ ~loopCondition
  /\ result' = <<Failure(exitMessage)>>
  /\ pc' = "done"
  /\ UNCHANGED <<catalog, route, uiVars, rendered, vcall, startPoint, endPoint,
                 maxDifficulty, openSet, visited, iterations, popped>>

NextSearch ==
  \/ \E start \in RoutePoints, end \in RoutePoints, maxDiff \in Difficulties :
       FindRoute(start, end, maxDiff)
  \/ SearchStep
  \/ SearchExit

SpecSearch == Init /\ [][NextSearch]_vars

----------------------------------------------------------------------------
(* Specification SpecSeeds: searches on catalogs where slope C may be a short *)
(* bidirectional link, both of whose ends are near the summit                 *)

ShortSlopesC ==
  { Slope("piste-C", "C", <<3000, 3040>>, d, 40, 10, c, TRUE) :
      d \in {"green", "black"},
      c \in {<<>>, <<"lift-A">>, <<"piste-B">>} }

SeedCatalogs ==
  { [lifts |-> <<a>>, slopes |-> <<b, c>>] :
      a \in {x \in LiftsA : x.duration = 4},
      b \in SlopesB,
      c \in ShortSlopesC \cup {x \in SlopesC : x.connectsTo = <<"lift-A">>} }

SeedInit ==
  /\ catalog \in SeedCatalogs
  /\ route = <<>>
  /\ validateRoutes = TRUE
  /\ toast = <<>>
  /\ stats = calculateRouteStats(<<>>)
  /\ validNext = getValidNextSegments(<<>>)
  /\ vcall = <<>>
  /\ SearchIdle

SpecSeeds == SeedInit /\ [][NextSearch]_vars

----------------------------------------------------------------------------
(* Specification Spec: the page.  A handler runs to completion and React     *)
(* renders after it, so every action that sets the route also sets the        *)
(* stats RouteBuilder shows.  A session builds a route by hand or runs one    *)
(* search from the untouched page.                                            *)

Toast(message) == <<[message |-> message, type |-> "error"]>>

\* prev.filter((_, i) => i !== index)
removeAt(segments, index) ==
  SubSeq(segments, 1, index - 1) \o SubSeq(segments, index + 1, Len(segments))

\* mutant: the segment is never found in the route
findIndexNever(segments, segment) == 0

\* prev.findIndex(...): 0 stands for -1
findIndex(segments, segment) ==
  LET hits == {i \in DOMAIN segments :
                 segments[i].type = segment.type /\ segments[i].id = segment.id}
  IN IF hits = {} THEN 0 ELSE CHOOSE i \in hits : \A j \in hits : i <= j

\* mutant: the rejecting branch falls through, so the toast is set and the
\* invalid segment is added all the same
SegmentClickAddsInvalid(segment) ==
  /\ pc = "idle"
  /\ LET existingIndex == findIndex(route, segment)
         validation == validateConnection(route, segment)
     IN IF existingIndex # 0
        THEN /\ route' = removeAt(route, existingIndex)
             /\ Render(removeAt(route, existingIndex))
             /\ vcall' = <<>>
             /\ UNCHANGED toast
        ELSE /\ Len(route) < MaxRouteLen
             /\ route' = Append(route, segment)
             /\ Render(Append(route, segment))
             /\ vcall' = IF validateRoutes
                         THEN <<[route |-> route, seg |-> segment,
                                 result |-> validation]>>
                         ELSE <<>>
             /\ toast' = IF validateRoutes /\ ~validation.isValid
                         THEN Toast(validation.message)
                         ELSE toast
  /\ UNCHANGED <<catalog, validateRoutes, searchVars>>

\* mutant: the validator is asked whatever the setting says
SegmentClickAlwaysValidates(segment) ==
  /\ pc = "idle"
  /\ LET existingIndex == findIndex(route, segment)
         validation == validateConnection(route, segment)
     IN IF existingIndex # 0
        THEN /\ route' = removeAt(route, existingIndex)
             /\ Render(removeAt(route, existingIndex))
             /\ vcall' = <<>>
             /\ UNCHANGED toast
        ELSE IF ~validation.isValid
        THEN /\ toast' = Toast(IF validation.message = <<>>
                               THEN <<"Invalid connection">>
                               ELSE validation.message)
             /\ vcall' = <<[route |-> route, seg |-> segment, result |-> validation]>>
             /\ UNCHANGED <<route, rendered>>
        ELSE /\ Len(route) < MaxRouteLen
             /\ route' = Append(route, segment)
             /\ Render(Append(route, segment))
             /\ vcall' = <<[route |-> route, seg |-> segment,
                            result |-> validation]>>
             /\ UNCHANGED toast
  /\ UNCHANGED <<catalog, validateRoutes, searchVars>>

SegmentClick(segment) ==
  /\ pc = "idle"
  /\ LET existingIndex == findIndex(route, segment)
         validation == validateConnection(route, segment)
     IN IF existingIndex # 0
        THEN /\ route' = removeAt(route, existingIndex)
             /\ Render(removeAt(route, existingIndex))
             /\ vcall' = <<>>
             /\ UNCHANGED toast
        ELSE IF validateRoutes /\ ~validation.isValid
        THEN /\ toast' = Toast(IF validation.message = <<>>
                               THEN <<"Invalid connection">>
                               ELSE validation.message)
             /\ vcall' = <<[route |-> route, seg |-> segment, result |-> validation]>>
             /\ UNCHANGED <<route, rendered>>
        ELSE /\ Len(route) < MaxRouteLen
             /\ route' = Append(route, segment)
             /\ Render(Append(route, segment))
             /\ vcall' = IF validateRoutes
                         THEN <<[route |-> route, seg |-> segment,
                                 result |-> validation]>>
                         ELSE <<>>
             /\ UNCHANGED toast
  /\ UNCHANGED <<catalog, validateRoutes, searchVars>>

RemoveSegment(index) ==
  /\ pc = "idle"
  /\ route' = removeAt(route, index)
  /\ Render(removeAt(route, index))
  /\ vcall' = <<>>
  /\ UNCHANGED <<catalog, uiVars, searchVars>>

ClearRoute ==
  /\ pc = "idle"
  /\ route # <<>>
  /\ route' = <<>>
  /\ Render(<<>>)
  /\ vcall' = <<>>
  /\ UNCHANGED <<catalog, uiVars, searchVars>>

\* the route name typed into the modal is not kept: the guard is on the route
ConfirmSaveRoute ==
  /\ pc = "idle"
  /\ Len(route) > 0
  /\ route' = <<>>
  /\ Render(<<>>)
  /\ vcall' = <<>>
  /\ UNCHANGED <<catalog, uiVars, searchVars>>

LoadRoute(segments) ==
  /\ pc = "idle"
  /\ route' = segments
  /\ Render(segments)
  /\ vcall' = <<>>
  /\ UNCHANGED <<catalog, uiVars, searchVars>>

ToggleValidation ==
  /\ pc = "idle"
  /\ validateRoutes' = ~validateRoutes
  /\ vcall' = <<>>
  /\ UNCHANGED <<catalog, route, toast, rendered, searchVars>>

\* the 4 s timer of the toast
HideToast ==
  /\ pc = "idle"
  /\ toast # <<>>
  /\ toast' = <<>>
  /\ vcall' = <<>>
  /\ UNCHANGED <<catalog, route, validateRoutes, rendered, searchVars>>

\* routes saved earlier under this catalog: its first lift, and its first
\* slope followed by that lift
SavedRoutes ==
  LET lift == RouteSegment("lift", catalog.lifts[1].id, catalog.lifts[1].name)
      slope == RouteSegment("slope", catalog.slopes[1].id, catalog.slopes[1].name)
  IN {<<lift>>, <<slope, lift>>}

PageUntouched == route = <<>> /\ toast = <<>> /\ validateRoutes /\ vcall = <<>>

\* The page is explored on part of the catalogs: what the handlers do turns
\* on connectsTo and on the geometry, not on the durations.
PageCatalogs ==
  { c \in GeneratedCatalogs : c.lifts[1].duration = 4 }
  \cup
  { c \in WebCatalogs :
      /\ c.lifts[1].connectsTo = <<"piste-B">>
      /\ c.lifts[2].connectsTo = <<>>
      /\ c.slopes[3].connectsTo = <<>> }

PageInit == Init /\ catalog \in PageCatalogs

Next ==
  \/ \E segment \in CatalogSegments : SegmentClick(segment)
  \/ \E index \in DOMAIN route : RemoveSegment(index)
  \/ ClearRoute
  \/ ConfirmSaveRoute
  \/ \E segments \in SavedRoutes : LoadRoute(segments)
  \/ ToggleValidation
  \/ HideToast
  \/ /\ PageUntouched
     /\ \E start \in RoutePoints, end \in RoutePoints :
          FindRoute(start, end, "none")
  \/ SearchStep
  \/ SearchExit

Spec == PageInit /\ [][Next]_vars

----------------------------------------------------------------------------
(* Specifications SpecValidated and SpecBuild: a route built by hand, by      *)
(* clicks on the map, removals from the list and clears, with the validation  *)
(* setting left on (SpecValidated) or switched at will (SpecBuild)            *)

NextValidated ==
  \/ \E segment \in CatalogSegments : SegmentClick(segment)
  \/ \E index \in DOMAIN route : RemoveSegment(index)
  \/ ClearRoute
  \/ HideToast

SpecValidated == PageInit /\ [][NextValidated]_vars

NextBuild ==
  \/ \E segment \in CatalogSegments : SegmentClick(segment)
  \/ \E index \in DOMAIN route : RemoveSegment(index)
  \/ ClearRoute
  \/ HideToast
  \/ ToggleValidation

SpecBuild == PageInit /\ [][NextBuild]_vars

----------------------------------------------------------------------------
(* Specification SpecStats: calculateRouteStats on any stored route, as the   *)
(* page renders it after loading a saved route                                *)

\* what a stored route can hold: segments of this catalog, segments of an
\* older catalog, and an id filed under the other type
StoredSegments == AnySegments \cup {RouteSegment("lift", "piste-B", "B")}

RECURSIVE StoredRoutes(_)
StoredRoutes(n) ==
  IF n = 0 THEN {<<>>}
  ELSE LET shorter == StoredRoutes(n - 1)
       IN shorter \cup { Append(r, s) : r \in {x \in shorter : Len(x) = n - 1},
                                         s \in StoredSegments }

NextStats ==
  /\ route = <<>>
  /\ \E segments \in StoredRoutes(MaxRouteLen) : LoadRoute(segments)

\* calculateRouteStats reads no connectsTo: one catalog for each choice of
\* the other fields
StatsCatalogs ==
  { c \in Catalogs :
      \A i \in DOMAIN c.slopes :
        c.slopes[i].connectsTo \in {<<>>, <<"piste-C">>, <<"lift-D">>} }

StatsInit == Init /\ catalog \in StatsCatalogs

SpecStats == StatsInit /\ [][NextStats]_vars

----------------------------------------------------------------------------
(* Specification SpecPipeline: the data-preparation scripts that write the   *)
(* catalog files: segment_pistes.js, add_elevations.js, rebuild_connections.js *)

\* segment_pistes.js
INTERSECTION_THRESHOLD == 30
MIN_SEGMENT_LENGTH == 50
\* the CONNECTION_THRESHOLD of each script
CONNECTION_THRESHOLD_segment_pistes == 30
CONNECTION_THRESHOLD_add_elevations == 75
CONNECTION_THRESHOLD_rebuild_connections == 150
\* add_elevations.js
BIDIRECTIONAL_LENGTH_THRESHOLD == 300
BIDIRECTIONAL_ELEVATION_THRESHOLD == 30
\* elevation null or not yet written
NoElevation == -1

lastCoord(coords) == coords[Len(coords)]

RECURSIVE getLineLength(_)
getLineLength(coords) ==
  IF Len(coords) < 2 THEN 0
  ELSE haversineDistance(coords[1], coords[2]) + getLineLength(Tail(coords))

\* a piste as fetch_osm_data.js writes it
Piste(id, coords) ==
  [id |-> id, coordinates |-> coords, length |-> getLineLength(coords),
   connectsTo |-> <<>>]

FetchedLift(id, coords) ==
  [id |-> id, coordinates |-> coords, connectsTo |-> <<>>]

\* the elevation service: one terrain per run, or no answer
Terrains == {"north", "flat", "south", "none"}

\* piste-A runs from 1000 over 500 to 0; piste-B ends near or far from the
\* middle of piste-A; lift-L boards near the foot of piste-A and exits near
\* the head of a piste
FetchedCatalogs ==
  { [lifts |-> <<FetchedLift("lift-L", <<bottom, top>>)>>,
     slopes |-> <<Piste("piste-A", <<1000, 500, 0>>),
                  Piste("piste-B", <<bStart, bEnd>>)>>,
     terrain |-> terrain] :
      bottom \in {20, 100}, top \in {1010, 1560},
      bEnd \in {520, 560, 640, 900}, bStart \in {1120, 1500},
      terrain \in Terrains }

\* `${props.id}-seg-${n}`
segmentId(id, n) ==
  CASE id = "piste-A" /\ n = 0 -> "piste-A-seg-0"
    [] id = "piste-A" /\ n = 1 -> "piste-A-seg-1"
    [] id = "piste-B" /\ n = 0 -> "piste-B-seg-0"
    [] OTHER -> "piste-B-seg-1"

\* the first point of A within the threshold of a point of B, 0 when none
firstNear(coordsA, pointB) ==
  LET hits == {ai \in DOMAIN coordsA :
                 haversineDistance(coordsA[ai], pointB) <= INTERSECTION_THRESHOLD}
  IN IF hits = {} THEN 0 ELSE CHOOSE ai \in hits : \A x \in hits : ai <= x

isEndpoint(coords, i) == i = 1 \/ i = Len(coords)

RECURSIVE ascending(_)
ascending(S) ==
  IF S = {} THEN <<>>
  ELSE LET least == CHOOSE x \in S : \A y \in S : x <= y
       IN <<least>> \o ascending(S \ {least})

\* for each piste the indices of its inner points where another piste comes
\* close, without duplicates, sorted
findIntersections(pistes) ==
  [k \in DOMAIN pistes |->
     LET coordsK == pistes[k].coordinates
         asA == {ai \in DOMAIN coordsK :
                   /\ ~isEndpoint(coordsK, ai)
                   /\ \E j \in DOMAIN pistes :
                        /\ j > k
                        /\ \E bi \in DOMAIN pistes[j].coordinates :
                             firstNear(coordsK, pistes[j].coordinates[bi]) = ai}
         asB == {bi \in DOMAIN coordsK :
                   /\ ~isEndpoint(coordsK, bi)
                   /\ \E i \in DOMAIN pistes :
                        /\ i < k
                        /\ firstNear(pistes[i].coordinates, coordsK[bi]) # 0}
     IN ascending(asA \cup asB)]

Segment(id, originalId, segmentIndex, coords, length) ==
  [id |-> id, originalId |-> originalId, segmentIndex |-> segmentIndex,
   coordinates |-> coords, length |-> length,
   startElevation |-> NoElevation, endElevation |-> NoElevation,
   bidirectional |-> FALSE, connectsTo |-> <<>>]

RECURSIVE splitAt(_, _, _, _, _)
splitAt(piste, splitPoints, i, lastIndex, segments) ==
  IF i > Len(splitPoints) THEN segments
  ELSE LET endIndex == splitPoints[i]
           segmentCoords == SubSeq(piste.coordinates, lastIndex, endIndex)
           length == getLineLength(segmentCoords)
       IN IF length < MIN_SEGMENT_LENGTH /\ i < Len(splitPoints)
          THEN splitAt(piste, splitPoints, i + 1, lastIndex, segments)
          ELSE splitAt(piste, splitPoints, i + 1, endIndex,
                 IF Len(segmentCoords) >= 2
                 THEN Append(segments,
                        Segment(segmentId(piste.id, Len(segments)), piste.id,
                                Len(segments), segmentCoords, length))
                 ELSE segments)

segmentPiste(piste, intersections) ==
  IF Len(intersections) = 0
  THEN <<Segment(segmentId(piste.id, 0), piste.id, 0, piste.coordinates,
                 piste.length)>>
  ELSE splitAt(piste, Append(intersections, Len(piste.coordinates)), 1, 1, <<>>)

RECURSIVE segmentAllPistes(_, _)
segmentAllPistes(pistes, intersectionsByPiste) ==
  IF pistes = <<>> THEN <<>>
  ELSE LET n == Len(pistes)
       IN segmentAllPistes(SubSeq(pistes, 1, n - 1), intersectionsByPiste)
          \o segmentPiste(pistes[n], intersectionsByPiste[n])

\* the ids of the points that pass a test, in the order of the points
idsWhere(points, Test(_)) ==
  LET hits == SelectSeq(points, Test)
  IN [i \in DOMAIN hits |-> hits[i].id]

RECURSIVE allPointsOf(_)
allPointsOf(segments) ==
  IF segments = <<>> THEN <<>>
  ELSE LET n == Len(segments)
           coords == segments[n].coordinates
       IN allPointsOf(SubSeq(segments, 1, n - 1))
          \o [i \in DOMAIN coords |-> [id |-> segments[n].id, coord |-> coords[i]]]

firstPointsOf(features) ==
  [i \in DOMAIN features |->
     [id |-> features[i].id, coord |-> features[i].coordinates[1]]]

buildSegmentConnections(segments, lifts) ==
  LET startPoints == firstPointsOf(segments) \o firstPointsOf(lifts)
      allPoints == allPointsOf(segments)
      connectionsOfSeg(seg) ==
        LET endCoord == lastCoord(seg.coordinates)
            close(p) == haversineDistance(endCoord, p.coord)
                          <= CONNECTION_THRESHOLD_segment_pistes
            other(p) == p.id # seg.id /\ close(p)
        IN unique(idsWhere(startPoints, other)
                  \o idsWhere(allPoints, other)
                  \o idsWhere(firstPointsOf(lifts), close))
      \* consecutive segments of the same piste
      nextOf(seg) ==
        LET later == {j \in DOMAIN segments :
                        /\ segments[j].originalId = seg.originalId
                        /\ segments[j].segmentIndex = seg.segmentIndex + 1}
        IN [j \in 1..Cardinality(later) |-> segments[CHOOSE x \in later : TRUE].id]
  IN [i \in DOMAIN segments |->
        [segments[i] EXCEPT
           !.connectsTo = unique(connectionsOfSeg(segments[i])
                                 \o nextOf(segments[i]))]]

\* node scripts/segment_pistes.js
SegmentPistes ==
  /\ pc = "fetched"
  /\ LET segments == segmentAllPistes(catalog.slopes,
                                      findIntersections(catalog.slopes))
     IN catalog' = [catalog EXCEPT
                      !.slopes = buildSegmentConnections(segments, catalog.lifts)]
  /\ pc' = "segment_pistes"
  /\ UNCHANGED <<route, uiVars, rendered, vcall, startPoint, endPoint,
                 maxDifficulty, openSet, visited, iterations, popped, result>>

elevationAt(terrain, coord) ==
  CASE terrain = "north" -> 1500 + coord
    [] terrain = "flat" -> 2000
    [] terrain = "south" -> 3000 - coord
    [] OTHER -> NoElevation

reverse(seq) == [i \in DOMAIN seq |-> seq[Len(seq) + 1 - i]]

abs(x) == IF x < 0 THEN -x ELSE x

updateSegmentElevations(segments, terrain) ==
  [i \in DOMAIN segments |->
     LET seg == segments[i]
         startElev == elevationAt(terrain, seg.coordinates[1])
         endElev == elevationAt(terrain, lastCoord(seg.coordinates))
     IN IF startElev # NoElevation /\ endElev # NoElevation
        THEN IF /\ seg.length < BIDIRECTIONAL_LENGTH_THRESHOLD
                /\ abs(startElev - endElev) < BIDIRECTIONAL_ELEVATION_THRESHOLD
             THEN [seg EXCEPT !.startElevation = startElev,
                              !.endElevation = endElev,
                              !.bidirectional = TRUE]
             ELSE IF startElev < endElev
             THEN [seg EXCEPT !.coordinates = reverse(seg.coordinates),
                              !.startElevation = endElev,
                              !.endElevation = startElev,
                              !.bidirectional = FALSE]
             ELSE [seg EXCEPT !.startElevation = startElev,
                              !.endElevation = endElev,
                              !.bidirectional = FALSE]
        ELSE [seg EXCEPT !.startElevation = 0, !.endElevation = 0,
                         !.bidirectional = FALSE]]

\* where skiing a piste can start: its first point, and its last point too
\* when it is bidirectional
RECURSIVE pisteStarts(_)
pisteStarts(segments) ==
  IF segments = <<>> THEN <<>>
  ELSE LET n == Len(segments)
           seg == segments[n]
       IN pisteStarts(SubSeq(segments, 1, n - 1))
          \o <<[id |-> seg.id, coord |-> seg.coordinates[1],
                elevation |-> seg.startElevation]>>
          \o (IF seg.bidirectional
              THEN <<[id |-> seg.id, coord |-> lastCoord(seg.coordinates),
                      elevation |-> seg.endElevation]>>
              ELSE <<>>)

liftStarts(lifts) == firstPointsOf(lifts)

exitPoints(seg) ==
  <<[coord |-> lastCoord(seg.coordinates), elev |-> seg.endElevation]>>
  \o (IF seg.bidirectional
      THEN <<[coord |-> seg.coordinates[1], elev |-> seg.startElevation]>>
      ELSE <<>>)

RECURSIVE concat(_)
concat(seqs) ==
  IF seqs = <<>> THEN <<>> ELSE seqs[1] \o concat(Tail(seqs))

\* add_elevations.js: every list is built anew
buildDirectionalConnectionsAnew(segments, lifts) ==
  LET T == CONNECTION_THRESHOLD_add_elevations
      fromExit(seg, exit) ==
        LET piste(ps) == /\ ps.id # seg.id
                         /\ haversineDistance(exit.coord, ps.coord) <= T
                         /\ ps.elevation <= exit.elev + 50
            lift(ls) == haversineDistance(exit.coord, ls.coord) <= T
        IN idsWhere(pisteStarts(segments), piste)
           \o idsWhere(liftStarts(lifts), lift)
      ofSegment(seg) ==
        LET exits == exitPoints(seg)
        IN unique(concat([e \in DOMAIN exits |-> fromExit(seg, exits[e])]))
      ofLift(lift) ==
        LET exitCoord == lastCoord(lift.coordinates)
            piste(ps) == haversineDistance(exitCoord, ps.coord) <= T
            other(ls) == /\ ls.id # lift.id
                         /\ haversineDistance(exitCoord, ls.coord) <= T
        IN unique(idsWhere(pisteStarts(segments), piste)
                  \o idsWhere(liftStarts(lifts), other))
  IN [lifts |-> [i \in DOMAIN lifts |->
                   [lifts[i] EXCEPT !.connectsTo = ofLift(lifts[i])]],
      slopes |-> [i \in DOMAIN segments |->
                    [segments[i] EXCEPT !.connectsTo = ofSegment(segments[i])]]]

\* node scripts/add_elevations.js
AddElevations ==
  /\ pc \in {"segment_pistes", "add_elevations", "rebuild_connections"}
  /\ LET segments == updateSegmentElevations(catalog.slopes, catalog.terrain)
         built == buildDirectionalConnectionsAnew(segments, catalog.lifts)
     IN catalog' = [catalog EXCEPT !.lifts = built.lifts,
                                   !.slopes = built.slopes]
  /\ pc' = "add_elevations"
  /\ UNCHANGED <<route, uiVars, rendered, vcall, startPoint, endPoint,
                 maxDifficulty, openSet, visited, iterations, popped, result>>

\* mutant: a piste is not kept from connecting to itself
buildDirectionalConnectionsToSelf(segments, lifts) ==
  LET T == CONNECTION_THRESHOLD_rebuild_connections
      fromExit(seg, exit) ==
        LET piste(ps) == /\ haversineDistance(exit.coord, ps.coord) <= T
                         /\ ps.elevation <= exit.elev + 100
            lift(ls) == haversineDistance(exit.coord, ls.coord) <= T
        IN idsWhere(pisteStarts(segments), piste)
           \o idsWhere(liftStarts(lifts), lift)
      ofSegment(seg) ==
        LET exits == exitPoints(seg)
        IN unique(seg.connectsTo
                  \o concat([e \in DOMAIN exits |-> fromExit(seg, exits[e])]))
      ofLift(lift) ==
        LET exitCoord == lastCoord(lift.coordinates)
            piste(ps) == haversineDistance(exitCoord, ps.coord) <= T
            other(ls) == /\ ls.id # lift.id
                         /\ haversineDistance(exitCoord, ls.coord) <= T
        IN unique(idsWhere(pisteStarts(segments), piste)
                  \o idsWhere(liftStarts(lifts), other))
  IN [lifts |-> [i \in DOMAIN lifts |->
                   [lifts[i] EXCEPT !.connectsTo = ofLift(lifts[i])]],
      slopes |-> [i \in DOMAIN segments |->
                    [segments[i] EXCEPT !.connectsTo = ofSegment(segments[i])]]]

\* rebuild_connections.js: the list a piste already has is kept and added to
buildDirectionalConnections(segments, lifts) ==
  LET T == CONNECTION_THRESHOLD_rebuild_connections
      fromExit(seg, exit) ==
        LET piste(ps) == /\ ps.id # seg.id
                         /\ haversineDistance(exit.coord, ps.coord) <= T
                         /\ ps.elevation <= exit.elev + 100
            lift(ls) == haversineDistance(exit.coord, ls.coord) <= T
        IN idsWhere(pisteStarts(segments), piste)
           \o idsWhere(liftStarts(lifts), lift)
      ofSegment(seg) ==
        LET exits == exitPoints(seg)
        IN unique(seg.connectsTo
                  \o concat([e \in DOMAIN exits |-> fromExit(seg, exits[e])]))
      ofLift(lift) ==
        LET exitCoord == lastCoord(lift.coordinates)
            piste(ps) == haversineDistance(exitCoord, ps.coord) <= T
            other(ls) == /\ ls.id # lift.id
                         /\ haversineDistance(exitCoord, ls.coord) <= T
        IN unique(idsWhere(pisteStarts(segments), piste)
                  \o idsWhere(liftStarts(lifts), other))
  IN [lifts |-> [i \in DOMAIN lifts |->
                   [lifts[i] EXCEPT !.connectsTo = ofLift(lifts[i])]],
      slopes |-> [i \in DOMAIN segments |->
                    [segments[i] EXCEPT !.connectsTo = ofSegment(segments[i])]]]

\* node scripts/rebuild_connections.js, "using existing elevation data"
RebuildConnections ==
  /\ pc \in {"add_elevations", "rebuild_connections"}
  /\ LET built == buildDirectionalConnections(catalog.slopes, catalog.lifts)
     IN catalog' = [catalog EXCEPT !.lifts = built.lifts,
                                   !.slopes = built.slopes]
  /\ pc' = "rebuild_connections"
  /\ UNCHANGED <<route, uiVars, rendered, vcall, startPoint, endPoint,
                 maxDifficulty, openSet, visited, iterations, popped, result>>

PipelineInit ==
  /\ catalog \in FetchedCatalogs
  /\ pc = "fetched"
  /\ route = <<>>
  /\ validateRoutes = TRUE
  /\ toast = <<>>
  /\ stats = calculateRouteStats(<<>>)
  /\ validNext = [lifts |-> <<>>, slopes |-> <<>>]
  /\ vcall = <<>>
  /\ startPoint = <<>>
  /\ endPoint = <<>>
  /\ maxDifficulty = "none"
  /\ openSet = <<>>
  /\ visited = {}
  /\ iterations = 0
  /\ popped = <<>>
  /\ result = <<>>

NextPipeline ==
  \/ SegmentPistes
  \/ AddElevations
  \/ RebuildConnections

SpecPipeline == PipelineInit /\ [][NextPipeline]_vars

----------------------------------------------------------------------------
(* The connectivity rule of the data model, stated on its own *)

connectionsOf(segment) ==
  { id \in LiftPrefixed \cup PistePrefixed :
      \E f \in {catalog.lifts[i] : i \in DOMAIN catalog.lifts} :
         segment.type = "lift" /\ f.id = segment.id
         /\ \E k \in DOMAIN f.connectsTo : f.connectsTo[k] = id }
  \cup
  { id \in LiftPrefixed \cup PistePrefixed :
      \E f \in {catalog.slopes[i] : i \in DOMAIN catalog.slopes} :
         segment.type = "slope" /\ f.id = segment.id
         /\ \E k \in DOMAIN f.connectsTo : f.connectsTo[k] = id }

featuresOf(segment) ==
  IF segment.type = "lift"
  THEN {catalog.lifts[i] : i \in DOMAIN catalog.lifts}
  ELSE {catalog.slopes[i] : i \in DOMAIN catalog.slopes}

exitWithinThreshold(prev, next) ==
  \E p \in featuresOf(prev), n \in featuresOf(next) :
    /\ p.id = prev.id
    /\ n.id = next.id
    /\ LET exit == p.coordinates[Len(p.coordinates)]
           entry == n.coordinates[1]
       IN exit - entry <= CONNECTION_THRESHOLD /\ entry - exit <= CONNECTION_THRESHOLD

ConnectivityRule(prev, next) ==
  next.id \in connectionsOf(prev) \/ exitWithinThreshold(prev, next)

----------------------------------------------------------------------------
(* C1: in a route grown from the empty route only by appends that           *)
(* validateConnection approved, every adjacent pair satisfies the           *)
(* connectivity rule: the later id is in the connections of the earlier     *)
(* segment, or the earlier exit is within the threshold of the later entry. *)
C1_ApprovedRouteConnected ==
  \A i \in 2..Len(route) : ConnectivityRule(route[i - 1], route[i])

\* an approved route of three segments whose last append was approved by the
\* geometric fallback alone
C1_Witness ==
  /\ Len(route) = 3
  /\ route[3].id \notin connectionsOf(route[2])
  /\ exitWithinThreshold(route[2], route[3])

(* C2: on a non-empty route validateConnection answers isValid = true       *)
(* exactly when the connectivity rule holds between the last route segment  *)
(* and the candidate, and the answer is the one the last segment alone      *)
(* gives.                                                                   *)
C2_ValidIffRuleOnLast ==
  \A c \in {vcall[i] : i \in DOMAIN vcall} :
    Len(c.route) > 0 =>
      /\ c.result.isValid <=> ConnectivityRule(c.route[Len(c.route)], c.seg)
      /\ c.result = validateConnection(<<c.route[Len(c.route)]>>, c.seg)

\* a call on a two-segment route whose first segment would accept the
\* candidate and whose last segment does not
C2_Witness ==
  \E c \in {vcall[i] : i \in DOMAIN vcall} :
    /\ Len(c.route) = 2
    /\ ~c.result.isValid
    /\ ConnectivityRule(c.route[1], c.seg)

(* C3: on the empty route validateConnection answers isValid = true for     *)
(* every candidate, also one whose id is not in the catalog.                *)
C3_EmptyRouteAlwaysValid ==
  \A c \in {vcall[i] : i \in DOMAIN vcall} :
    Len(c.route) = 0 => c.result.isValid

\* the empty route was asked about a candidate that is not in the catalog
C3_Witness ==
  \E c \in {vcall[i] : i \in DOMAIN vcall} :
    /\ Len(c.route) = 0
    /\ c.seg \in UnknownSegments
    /\ c.result.isValid

----------------------------------------------------------------------------
(* The search problem, stated on the catalog without the search's helpers *)

liftFeatures == {catalog.lifts[i] : i \in DOMAIN catalog.lifts}
slopeFeatures == {catalog.slopes[i] : i \in DOMAIN catalog.slopes}
catalogIds == {f.id : f \in liftFeatures \cup slopeFeatures}

within(a, b) == a - b <= CONNECTION_THRESHOLD /\ b - a <= CONNECTION_THRESHOLD

entersNear(id, loc) ==
  \/ \E f \in liftFeatures : f.id = id /\ within(f.coordinates[1], loc)
  \/ \E f \in slopeFeatures :
       /\ f.id = id
       /\ \/ within(f.coordinates[1], loc)
          \/ f.bidirectional /\ within(f.coordinates[Len(f.coordinates)], loc)

exitsNear(id, loc) ==
  \/ \E f \in liftFeatures : f.id = id /\ within(f.coordinates[Len(f.coordinates)], loc)
  \/ \E f \in slopeFeatures :
       /\ f.id = id
       /\ \/ within(f.coordinates[Len(f.coordinates)], loc)
          \/ f.bidirectional /\ within(f.coordinates[1], loc)

admissible(id, maxDiff) ==
  \/ maxDiff = "none"
  \/ \E f \in liftFeatures : f.id = id
  \/ \E f \in slopeFeatures :
       f.id = id /\ DIFFICULTY_ORDER[f.difficulty] <= DIFFICULTY_ORDER[maxDiff]

edge(p, s) ==
  \E f \in liftFeatures \cup slopeFeatures :
    f.id = p /\ \E k \in DOMAIN f.connectsTo : f.connectsTo[k] = s

Infinity == 1000 * 1000 * 1000

minOf(S) == IF S = {} THEN Infinity ELSE CHOOSE x \in S : \A y \in S : x <= y

\* least cost of an admissible chain of at most n segments that starts at a
\* segment entering near `from` and ends with segment s
RECURSIVE chainCost(_, _, _, _)
chainCost(s, n, from, maxDiff) ==
  IF n = 0 \/ ~admissible(s, maxDiff) THEN Infinity
  ELSE minOf(
         (IF entersNear(s, from) THEN {getSegmentTimeCost(s)} ELSE {})
         \cup { chainCost(p, n - 1, from, maxDiff) + getSegmentTimeCost(s) :
                  p \in {q \in catalogIds : edge(q, s)} })

\* least cost of an admissible chain from the start coordinate to the goal set
minimalTime(from, to, maxDiff) ==
  minOf({ chainCost(s, Cardinality(catalogIds), from, maxDiff) :
            s \in {q \in catalogIds : exitsNear(q, to)} })

RECURSIVE routeCost(_)
routeCost(r) ==
  IF r = <<>> THEN 0 ELSE getSegmentTimeCost(Head(r).id) + routeCost(Tail(r))

returned == pc = "done"

openIds == {openSet[i].id : i \in DOMAIN openSet}

----------------------------------------------------------------------------
(* C4: whenever findRoute succeeds, the returned route is a minimal-time path: *)
(* no chain of difficulty-admissible segments from a segment entering near     *)
(* the start coordinate, along connectsTo, to a goal segment costs less.       *)
C4_MinimalTimePath ==
  returned /\ result[1].success =>
    routeCost(result[1].route)
      <= minimalTime(StartLocation, EndLocation, maxDifficulty)

(* C5: every slope of a returned route has a difficulty within maxDifficulty   *)
(* (green < blue < red < black), and lifts are never held back by the limit:   *)
(* every lift entering near the start is seeded, and every lift neighbour of   *)
(* an expanded segment is in the open list or already visited.                 *)
C5_RouteWithinDifficulty ==
  /\ returned /\ result[1].success =>
       \A i \in DOMAIN result[1].route :
         LET seg == result[1].route[i]
         IN seg.type = "slope" /\ maxDifficulty # "none" =>
              \E f \in slopeFeatures :
                /\ f.id = seg.id
                /\ DIFFICULTY_ORDER[f.difficulty] <= DIFFICULTY_ORDER[maxDifficulty]
  /\ pc = "search" /\ iterations = 0 =>
       \A f \in liftFeatures : within(f.coordinates[1], StartLocation) => f.id \in openIds
  /\ pc = "search" =>
       \A i \in DOMAIN popped : \A f \in liftFeatures :
         edge(popped[i], f.id) => f.id \in visited \cup openIds

\* a limited search returned a route with a slope and a lift, in a catalog
\* that also holds a slope above the limit
C5_Witness ==
  /\ returned /\ result[1].success /\ maxDifficulty = "green"
  /\ \E i, j \in DOMAIN result[1].route :
       result[1].route[i].type = "slope" /\ result[1].route[j].type = "lift"
  /\ \E f \in slopeFeatures : f.difficulty = "black"

(* C6: findRoute terminates, also on catalogs with cycles: the loop counter    *)
(* never exceeds the iteration cap and every pass through the loop, skipped    *)
(* pops included, raises it by one or returns.                                 *)
C6_BoundedIterations ==
  /\ [](iterations <= maxIterations)
  /\ [][pc = "search" => (iterations' = iterations + 1 \/ pc' = "done")]_vars

\* the cap stopped a search on a cyclic catalog with items still open
C6_Witness ==
  /\ returned /\ iterations = maxIterations /\ openSet # <<>>
  /\ \E a, b \in catalogIds : a # b /\ edge(a, b) /\ edge(b, a)

(* C7: 'No route found' is reported whenever the open list is exhausted        *)
(* without a goal segment being popped, and 'Search exceeded' only when the    *)
(* cap stopped the search with open items left, also when the list empties     *)
(* on exactly the last allowed iteration.                                      *)
C7_OutcomesNotConfused ==
  returned /\ ~result[1].success =>
    /\ result[1].message = Exceeded => openSet # <<>>
    /\ popped # <<>> /\ openSet = <<>> => result[1].message = NoRoute

\* the two RoutePoints resolve to coordinates
resolved == StartLocation # NoCoord /\ EndLocation # NoCoord

\* the segments some chain of at most n + 1 connected segments reaches from
\* the start coordinate, whatever the difficulty
RECURSIVE reached(_)
reached(n) ==
  IF n = 0 THEN {id \in catalogIds : entersNear(id, StartLocation)}
  ELSE LET before == reached(n - 1)
       IN before \cup {s \in catalogIds : \E p \in before : edge(p, s)}

\* no chain of connected segments leads from the start coordinate to the end
\* coordinate
noChain ==
  \A s \in reached(Cardinality(catalogIds)) : ~exitsNear(s, EndLocation)

(* C8 as claimed: when both points resolve and no chain of connected segments  *)
(* leads from the start coordinate to the end coordinate, findRoute returns    *)
(* success = false with 'No route found between these points', for every       *)
(* start/end position.                                                         *)
C8_NoChainNoRouteFound ==
  returned /\ resolved /\ noChain => result[1] = Failure(NoRoute)

(* C8 amended: when both points resolve and no chain leads from the start to   *)
(* the end coordinate, findRoute returns success = false with an empty route;  *)
(* the message is 'No segments found near start point' when no segment enters  *)
(* near the start coordinate, else 'No segments found near end point' when no  *)
(* segment exits near the end coordinate, else 'Search exceeded maximum        *)
(* iterations' when the loop ran the full iteration cap, and 'No route found   *)
(* between these points' otherwise.                                            *)
C8_NoChainFails ==
  returned /\ resolved /\ noChain =>
    result[1] = Failure(
      IF \A id \in catalogIds : ~entersNear(id, StartLocation) THEN NoStart
      ELSE IF \A id \in catalogIds : ~exitsNear(id, EndLocation) THEN NoEnd
      ELSE IF iterations = maxIterations THEN Exceeded
      ELSE NoRoute)

\* a search that expanded three segments and exhausted the open list below the cap
C8_Witness ==
  /\ returned /\ resolved /\ noChain
  /\ Len(popped) >= 3 /\ iterations < maxIterations
  /\ result[1].message = NoRoute

\* start and end name the same catalog segment
sameSegment ==
  /\ startPoint[1].id = endPoint[1].id
  /\ startPoint[1].type = endPoint[1].type
  /\ startPoint[1].id \in catalogIds

(* C9 as claimed: when start and end name the same catalog segment, findRoute  *)
(* returns success = true with a route of at most one segment.                 *)
C9_SameSegmentSucceeds ==
  returned /\ sameSegment => result[1].success /\ Len(result[1].route) <= 1

(* C9 amended: when start is the start of a catalog segment X and end is the   *)
(* end of the same X, and X is within the difficulty limit, findRoute returns  *)
(* success = true with a non-empty route that ends at a segment exiting near   *)
(* X's end and costs no more than X alone (not always [X], not always one      *)
(* segment), unless the loop ran the full iteration cap first, which gives     *)
(* 'Search exceeded maximum iterations'.                                       *)
C9_SameSegmentStartToEnd ==
  returned /\ sameSegment
    /\ startPoint[1].position = "start" /\ endPoint[1].position = "end"
    /\ admissible(startPoint[1].id, maxDifficulty) =>
      \/ /\ result[1].success
         /\ result[1].route # <<>>
         /\ exitsNear(result[1].route[Len(result[1].route)].id, EndLocation)
         /\ routeCost(result[1].route) <= getSegmentTimeCost(startPoint[1].id)
      \/ result[1] = Failure(Exceeded) /\ iterations = maxIterations

\* the search from X's start to X's end returned two other segments
C9_Witness ==
  /\ returned /\ sameSegment
  /\ startPoint[1].position = "start" /\ endPoint[1].position = "end"
  /\ result[1].success /\ Len(result[1].route) = 2
  /\ \A i \in DOMAIN result[1].route : result[1].route[i].id # startPoint[1].id

\* the call of the scenario: from the start of lift a to the end of a blue
\* slope b of 1000 m
liftToBlueCall(a, b) ==
  /\ startPoint[1] = RoutePoint("lift", a.id, "start")
  /\ endPoint[1] = RoutePoint("slope", b.id, "end")
  /\ b.difficulty = "blue" /\ b.length = 1000

----------------------------------------------------------------------------
(* C12: when the start or the end RoutePoint names a segment id that is not    *)
(* in the catalog, or is a station, findRoute returns success = false with an  *)
(* empty route and 'Invalid start or end point', and the loop is never         *)
(* entered: nothing is seeded, popped or visited.                              *)
unresolvable(point) ==
  \/ point.type \notin {"lift", "slope"}
  \/ point.id \notin catalogIds

C12_InvalidEndpoint ==
  pc # "idle" /\ (unresolvable(startPoint[1]) \/ unresolvable(endPoint[1])) =>
    /\ pc = "done"
    /\ result[1] = [success |-> FALSE, route |-> <<>>, message |-> InvalidPoint]
    /\ iterations = 0 /\ openSet = <<>> /\ visited = {} /\ popped = <<>>

\* a call from a catalog segment to a station
C12_Witness ==
  /\ returned
  /\ startPoint[1].id \in catalogIds /\ startPoint[1].type \in {"lift", "slope"}
  /\ endPoint[1].type = "station"
  /\ result[1].message = InvalidPoint

(* C13: every result findRoute returns is well formed: with success = false    *)
(* the route is empty and a message is present, with success = true the route  *)
(* is non-empty and every element is the (type, id, name) of a lift or a slope *)
(* of the catalog.                                                             *)
C13_ResultWellFormed ==
  returned =>
    /\ Len(result) = 1
    /\ IF result[1].success
       THEN /\ result[1].route # <<>>
            /\ \A i \in DOMAIN result[1].route :
                 LET seg == result[1].route[i]
                 IN \/ \E f \in liftFeatures :
                         seg = [type |-> "lift", id |-> f.id, name |-> f.name]
                    \/ \E f \in slopeFeatures :
                         seg = [type |-> "slope", id |-> f.id, name |-> f.name]
       ELSE /\ result[1].route = <<>>
            /\ result[1].message \in {InvalidPoint, NoStart, NoEnd, Exceeded, NoRoute}

\* a successful search that expanded an id the catalog does not hold
C13_Witness ==
  /\ returned /\ result[1].success
  /\ \E id \in visited : id \notin catalogIds

----------------------------------------------------------------------------
(* The validator's calls, stated on the catalog *)

calls == {vcall[i] : i \in DOMAIN vcall}

lastOf(c) == c.route[Len(c.route)]

known(segment) == \E f \in featuresOf(segment) : f.id = segment.id

\* the candidate's entry is farther than the threshold from the prior exit
entryFarther(prev, next) ==
  \E p \in featuresOf(prev), n \in featuresOf(next) :
    /\ p.id = prev.id
    /\ n.id = next.id
    /\ ~within(p.coordinates[Len(p.coordinates)], n.coordinates[1])

\* the candidate's end is within the threshold of the prior exit
endNearExit(prev, next) ==
  \E p \in featuresOf(prev), n \in featuresOf(next) :
    /\ p.id = prev.id
    /\ n.id = next.id
    /\ within(p.coordinates[Len(p.coordinates)], n.coordinates[Len(n.coordinates)])

parts(message) == {message[i] : i \in DOMAIN message}

(* C14: a rejection by validateConnection has isValid = false and a message    *)
(* holding the names of the candidate and of the last route segment, and a     *)
(* candidate whose entry is farther than the threshold from the last           *)
(* segment's exit and that is not in its connections is rejected.              *)
C14_RejectionNamesBoth ==
  \A c \in calls :
    Len(c.route) > 0 =>
      /\ ~c.result.isValid =>
           {c.seg.name, lastOf(c).name} \subseteq parts(c.result.message)
      /\ entryFarther(lastOf(c), c.seg) /\ c.seg.id \notin connectionsOf(lastOf(c)) =>
           ~c.result.isValid

\* a candidate entering 3000 m from the last exit, under another name, rejected
C14_Witness ==
  \E c \in calls :
    /\ Len(c.route) > 0
    /\ entryFarther(lastOf(c), c.seg)
    /\ ~exitWithinThreshold(lastOf(c), c.seg)
    /\ c.seg.name # lastOf(c).name
    /\ ~c.result.isValid

(* C15 as claimed: a rejection carries the wrong-direction hint exactly when   *)
(* the candidate, lift or slope, ends within the threshold of the prior exit.  *)
C15_HintWhenEndNear ==
  \A c \in calls :
    Len(c.route) > 0 /\ ~c.result.isValid =>
      (WrongDirection \in parts(c.result.message) <=> endNearExit(lastOf(c), c.seg))

(* C15 amended: a rejection carries the wrong-direction hint exactly when the  *)
(* candidate is a slope that ends within the threshold of the prior exit; a    *)
(* rejected lift never gets the hint, and neither does a candidate whose end   *)
(* is not near the prior exit or whose coordinates are not found.              *)
C15_HintForSlopeEndNear ==
  \A c \in calls :
    Len(c.route) > 0 /\ ~c.result.isValid =>
      (WrongDirection \in parts(c.result.message)
         <=> c.seg.type = "slope" /\ endNearExit(lastOf(c), c.seg))

\* a rejected slope that ends where the last segment ends
C15_Witness ==
  \E c \in calls :
    /\ Len(c.route) > 0 /\ ~c.result.isValid
    /\ c.seg.type = "slope" /\ c.seg.id # lastOf(c).id
    /\ endNearExit(lastOf(c), c.seg)
    /\ WrongDirection \in parts(c.result.message)

(* C17: on a non-empty route validateConnection answers isValid = false        *)
(* whenever the candidate or the last route segment is not found in the        *)
(* catalog.                                                                    *)
C17_LookupMissFails ==
  \A c \in calls :
    Len(c.route) > 0 /\ (~known(c.seg) \/ ~known(lastOf(c))) => ~c.result.isValid

----------------------------------------------------------------------------
(* C16: a click, with validation enabled, on a segment that is not in the      *)
(* route and that validateConnection rejects leaves the route as it was and    *)
(* sets the error toast to the validator's message; the setting, the rendered  *)
(* stats and the catalog stay as they were.                                    *)
C16_RejectedClickKeepsRoute ==
  [][vcall' # <<>> /\ ~vcall'[1].result.isValid =>
       /\ validateRoutes
       /\ vcall'[1].route = route
       /\ findIndex(route, vcall'[1].seg) = 0
       /\ route' = route
       /\ toast' = <<[message |-> vcall'[1].result.message, type |-> "error"]>>
       /\ UNCHANGED <<catalog, validateRoutes, rendered, searchVars>>]_vars

\* a rejected click on a route of two segments, its toast still shown
C16_Witness ==
  /\ vcall # <<>> /\ ~vcall[1].result.isValid
  /\ Len(route) = 2 /\ route = vcall[1].route
  /\ toast # <<>>

----------------------------------------------------------------------------
(* The stats, stated on the catalog *)

RECURSIVE Sum(_, _)
Sum(f, S) ==
  IF S = {} THEN 0
  ELSE LET x == CHOOSE y \in S : TRUE
       IN f[x] + Sum(f, S \ {x})

\* the places of the route that hold a lift, or a slope, of the catalog
liftPlaces == {i \in DOMAIN route : route[i].type = "lift" /\ known(route[i])}
slopePlaces == {i \in DOMAIN route : route[i].type # "lift" /\ known(route[i])}

liftAt(i) == CHOOSE f \in liftFeatures : f.id = route[i].id
slopeAt(i) == CHOOSE f \in slopeFeatures : f.id = route[i].id

(* C18: the stats of a route are the sums over its resolvable segments:        *)
(* totalVerticalUp the sum of the lifts' verticalRise, totalVerticalDown the   *)
(* sum of the slopes' verticalDrop, liftCount and slopeCount the numbers of    *)
(* resolved lifts and slopes, and the four difficulty counts, each the number  *)
(* of resolved slopes of that difficulty, add up to slopeCount.                *)
C18_StatsAreSums ==
  /\ stats.totalVerticalUp = Sum([i \in liftPlaces |-> liftAt(i).verticalRise], liftPlaces)
  /\ stats.totalVerticalDown
       = Sum([i \in slopePlaces |-> slopeAt(i).verticalDrop], slopePlaces)
  /\ stats.liftCount = Cardinality(liftPlaces)
  /\ stats.slopeCount = Cardinality(slopePlaces)
  /\ DOMAIN stats.difficultyBreakdown = {"green", "blue", "red", "black"}
  /\ \A d \in DOMAIN stats.difficultyBreakdown :
       stats.difficultyBreakdown[d]
         = Cardinality({i \in slopePlaces : slopeAt(i).difficulty = d})
  /\ stats.difficultyBreakdown["green"] + stats.difficultyBreakdown["blue"]
       + stats.difficultyBreakdown["red"] + stats.difficultyBreakdown["black"]
       = stats.slopeCount

\* a route with the same slope twice, a lift, in a catalog with two difficulties
C18_Witness ==
  /\ Len(route) = 3
  /\ stats.slopeCount = 2 /\ stats.liftCount = 1
  /\ \E i, j \in slopePlaces : i # j /\ route[i] = route[j]

\* the route without the segments that are not found under their type
RECURSIVE resolvableOnly(_)
resolvableOnly(segments) ==
  IF segments = <<>> THEN <<>>
  ELSE (IF known(Head(segments)) THEN <<Head(segments)>> ELSE <<>>)
       \o resolvableOnly(Tail(segments))

(* C19: a route segment whose id is not found in the collection its type       *)
(* selects adds nothing: the stats of a route are the stats of the same route  *)
(* with those segments left out, wherever they stand, and they are always a    *)
(* full record of numbers.                                                     *)
C19_UnknownSegmentsSkipped ==
  /\ stats = calculateRouteStats(resolvableOnly(route))
  /\ stats.totalVerticalUp \in Nat /\ stats.totalVerticalDown \in Nat
  /\ stats.estimatedTime \in Nat
  /\ stats.liftCount + stats.slopeCount = Len(resolvableOnly(route))

\* a slope id filed as a lift first, a lift of the catalog, then an id the
\* catalog does not hold
C19_Witness ==
  /\ Len(route) = 3
  /\ route[1] = [type |-> "lift", id |-> "piste-B", name |-> "B"]
  /\ known(route[2])
  /\ route[3].id \notin catalogIds
  /\ stats.liftCount + stats.slopeCount = 1

----------------------------------------------------------------------------
(* C20: no step of the page or of the search (a click with its validation, a   *)
(* removal, a clear, a save, a load, each with the stats and the reachable     *)
(* segments rendered after it, and every step of findRoute) changes the        *)
(* catalog: geometry, properties and connectsTo of every segment stay what     *)
(* they were at start-up.                                                      *)
C20_CatalogNeverChanges == [][catalog' = catalog]_vars

\* a route was built through the validator, a click was rejected, and the
\* stats and the reachable segments were rendered
C20_Witness ==
  /\ Len(route) = 2 /\ vcall # <<>> /\ toast # <<>>
  /\ stats.liftCount + stats.slopeCount = 2
  /\ Len(validNext.lifts) + Len(validNext.slopes) = 2


----------------------------------------------------------------------------
(* C21: what the pipeline writes into connectsTo *)

builtFeatures ==
  {catalog.lifts[i] : i \in DOMAIN catalog.lifts}
    \cup {catalog.slopes[i] : i \in DOMAIN catalog.slopes}

bothWays(f) == "bidirectional" \in DOMAIN f /\ f.bidirectional

entryCoords(f) ==
  {f.coordinates[1]}
    \cup (IF bothWays(f) THEN {f.coordinates[Len(f.coordinates)]} ELSE {})

exitCoords(f) ==
  {f.coordinates[Len(f.coordinates)]}
    \cup (IF bothWays(f) THEN {f.coordinates[1]} ELSE {})

connectionsBuilt == pc \in {"segment_pistes", "add_elevations", "rebuild_connections"}

thresholdOfScript ==
  CASE pc = "segment_pistes" -> CONNECTION_THRESHOLD_segment_pistes
    [] pc = "add_elevations" -> CONNECTION_THRESHOLD_add_elevations
    [] OTHER -> CONNECTION_THRESHOLD_rebuild_connections

entryNearExit(s, id) ==
  \E t \in builtFeatures :
    /\ t.id = id
    /\ \E e \in entryCoords(t), x \in exitCoords(s) :
         haversineDistance(x, e) <= thresholdOfScript

\* what segment_pistes.js goes by: a lift's first point, or any point of a
\* piste segment, near the last point of s
pointNearEnd(s, id) ==
  \E t \in builtFeatures :
    /\ t.id = id
    /\ \E p \in (IF "segmentIndex" \in DOMAIN t
                 THEN {t.coordinates[i] : i \in DOMAIN t.coordinates}
                 ELSE {t.coordinates[1]}) :
         haversineDistance(s.coordinates[Len(s.coordinates)], p)
           <= thresholdOfScript

----------------------------------------------------------------------------
(* C22: clicks in free mode *)

\* C22: with validation turned off, a click on a segment that is not in the
\* route can be made whatever the route is, and all it can do is append the
\* segment at the end without a call of the validator (the route of the model
\* is capped at MaxRouteLen)
C22_FreeModeClickAppends ==
  (pc = "idle" /\ ~validateRoutes /\ Len(route) < MaxRouteLen) =>
    \A segment \in CatalogSegments :
      findIndex(route, segment) = 0 =>
        /\ ENABLED SegmentClick(segment)
        /\ ~ENABLED (/\ SegmentClick(segment)
                     /\ ~(route' = Append(route, segment) /\ vcall' = <<>>))

\* in free mode a click has just put a segment after one it does not connect
\* to
C22_Witness ==
  /\ ~validateRoutes
  /\ vcall = <<>>
  /\ Len(route) = 2
  /\ ~validateConnection(<<route[1]>>, route[2]).isValid
  /\ toast = <<>>


----------------------------------------------------------------------------
(* C23: the visited set of the search *)

\* one iteration of the while loop has run
iterated == pc = "search" /\ iterations' = iterations + 1

pushed == {openSet'[i] : i \in DOMAIN openSet'} \ {openSet[i] : i \in DOMAIN openSet}

\* C23: in one search no id is expanded twice; an iteration that pops a
\* visited id outside the goal set drops the item and pushes nothing; and no
\* iteration pushes an item for a visited id
C23_ExpandedAtMostOnce ==
  [][iterated =>
       /\ \A i, j \in DOMAIN popped' : popped'[i] = popped'[j] => i = j
       /\ (Head(openSet).id \in visited /\ Head(openSet).id \notin goalSegments)
            => /\ openSet' = Tail(openSet)
               /\ visited' = visited
               /\ popped' = popped
       /\ \A item \in pushed : item.id \notin visited']_vars

\* an item of a visited id has been popped and dropped, and a segment expanded
\* later lists a segment expanded before it
C23_Witness ==
  /\ pc = "search"
  /\ iterations > Len(popped)
  /\ \E i, j \in DOMAIN popped :
       /\ i < j
       /\ includes(getConnectionsById(popped[j]), popped[i])


----------------------------------------------------------------------------
(* C24: the seeds and the goal set *)

seedIds ==
  {id \in catalogIds :
     entersNear(id, StartLocation) /\ admissible(id, maxDifficulty)}

bothEndsNear(loc) ==
  {f.id : f \in {x \in slopeFeatures :
                   /\ x.bidirectional
                   /\ within(x.coordinates[1], loc)
                   /\ within(x.coordinates[Len(x.coordinates)], loc)}}

\* C24: before the first iteration the open list holds one item, and only
\* one, for each admissible segment that can be entered within the threshold
\* of the start, and the goal set is the set of segments that can be left
\* within the threshold of the end
C24_SeedsAndGoals ==
  (pc = "search" /\ iterations = 0) =>
    /\ {openSet[i].id : i \in DOMAIN openSet} = seedIds
    /\ Len(openSet) = Cardinality(seedIds)
    /\ \A i \in DOMAIN openSet : openSet[i].path = <<openSet[i].id>>
    /\ goalSegments = {id \in catalogIds : exitsNear(id, EndLocation)}

\* a search is seeded at a place where both ends of a bidirectional slope are
\* near, while another segment near the start is too difficult, and the same
\* slope is a goal
C24_Witness ==
  /\ pc = "search"
  /\ iterations = 0
  /\ \E id \in bothEndsNear(StartLocation) :
       /\ id \in seedIds
       /\ id \in bothEndsNear(EndLocation)
       /\ id \in goalSegments
  /\ \E id \in catalogIds :
       entersNear(id, StartLocation) /\ ~admissible(id, maxDifficulty)


----------------------------------------------------------------------------
(* C25: the cost of a segment in the search and in the stats *)

inCatalog(path) == \A k \in DOMAIN path : path[k] \in catalogIds

\* C25: the search cost of every lift of the catalog is its duration, that
\* of every slope its length at the speed of its difficulty, so the g-score
\* of every item on the open list is the unrounded time calculateRouteStats
\* adds up for the segments of its path
C25_CostIsStatsTime ==
  /\ \A f \in liftFeatures : getSegmentTimeCost(f.id) = f.duration * Minute
  /\ \A f \in slopeFeatures :
       getSegmentTimeCost(f.id) = slopeTime(f.length, AVERAGE_SPEEDS[f.difficulty])
  /\ \A i \in DOMAIN openSet :
       inCatalog(openSet[i].path) =>
         openSet[i].g = accumulate(buildRoute(openSet[i].path)).estimatedTime


----------------------------------------------------------------------------
(* C26: the reachability the map shows and the validator *)

reachableSegments == seqToSet(validNext.lifts) \cup seqToSet(validNext.slopes)

\* C26: while the route is not empty, a segment of the catalog is shown as
\* reachable if and only if validateConnection accepts it after the route
C26_ReachableIffValid ==
  route # <<>> =>
    \A segment \in CatalogSegments :
      segment.id \in reachableSegments
        <=> validateConnection(route, segment).isValid


----------------------------------------------------------------------------
(* C27: the route built by hand with validation on *)

\* C27: with validation on throughout, after any clicks, removals by index
\* and clears every adjacent pair of the route satisfies the connectivity
\* rule
C27_AdjacentPairsConnected ==
  \A i \in 2..Len(route) : ConnectivityRule(route[i - 1], route[i])


----------------------------------------------------------------------------
(* C30: no segment twice in the route built by hand *)

sameEntry(a, b) == a.type = b.type /\ a.id = b.id

\* the route without its entry k, the others in their order
without(r, k, shorter) ==
  /\ Len(shorter) = Len(r) - 1
  /\ \A i \in DOMAIN shorter : shorter[i] = (IF i < k THEN r[i] ELSE r[i + 1])

\* C30: no step leaves two entries of the same type and id in the route; a
\* click on a segment that is in the route, in either mode, takes that entry
\* out, the others keeping their order, without a call of the validator
C30_NoSegmentTwice ==
  [][/\ \A i, j \in DOMAIN route' : sameEntry(route'[i], route'[j]) => i = j
     /\ \A segment \in CatalogSegments :
          (findIndex(route, segment) # 0 /\ SegmentClick(segment)) =>
            /\ without(route, findIndex(route, segment), route')
            /\ vcall' = <<>>]_vars

\* a route of the greatest length of the model stands in free mode, two of
\* its neighbours not connected, so a click on any of its segments is a
\* removal
C30_Witness ==
  /\ Len(route) = MaxRouteLen
  /\ ~validateRoutes
  /\ \E i \in 2..Len(route) : ~ConnectivityRule(route[i - 1], route[i])


----------------------------------------------------------------------------
(* C28: the route a search returns is a chain from the start to the goal *)

succeeded == pc = "done" /\ result # <<>> /\ result[1].success

\* C28: a returned route is not empty, its first segment can be entered near
\* the start, its last segment can be left near the end, every later segment
\* is listed in connectsTo of the one before it, and validateConnection
\* accepts each of its segments after the ones before it
C28_ReturnedRouteIsChain ==
  succeeded =>
    LET r == result[1].route
    IN /\ Len(r) >= 1
       /\ entersNear(r[1].id, StartLocation)
       /\ exitsNear(r[Len(r)].id, EndLocation)
       /\ \A i \in 2..Len(r) : edge(r[i - 1].id, r[i].id)
       /\ \A i \in 1..Len(r) :
            validateConnection(SubSeq(r, 1, i - 1), r[i]).isValid

\* a search has returned three segments, one of which starts out of reach of
\* the exit of the one before it and is joined to it by connectsTo alone
C28_Witness ==
  /\ succeeded
  /\ Len(result[1].route) = 3
  /\ \E i \in 2..3 :
       ~exitWithinThreshold(result[1].route[i - 1], result[1].route[i])


----------------------------------------------------------------------------
(* C29: the paths of the search are simple *)

simple(seq) == \A i, j \in DOMAIN seq : seq[i] = seq[j] => i = j

\* C29: no path on the open list holds an id twice, and no returned route
\* holds a segment twice
C29_PathsAreSimple ==
  /\ \A i \in DOMAIN openSet : simple(openSet[i].path)
  /\ succeeded =>
       simple([k \in DOMAIN result[1].route |-> result[1].route[k].id])

\* the open list holds a path whose last segment lists itself or a segment
\* earlier on the path
C29_Witness ==
  \E i \in DOMAIN openSet :
    LET path == openSet[i].path
    IN /\ Len(path) >= 2
       /\ \E k \in DOMAIN path : edge(path[Len(path)], path[k])

====
